---- MODULE Spec2Model ----
(***************************************************************************)
(* A model of mini-proxy (src/main.go): a single-backend reverse proxy     *)
(* built from net/http/httputil.ReverseProxy with a custom Director, a     *)
(* logging middleware, an ErrorHandler and an http.TimeoutHandler.         *)
(*                                                                         *)
(* Strings are sequences of tokens.  The tokens "," " " and ":" are the    *)
(* single characters the code splits, trims and joins on; every other      *)
(* token ("10.0.0.2", "https", ...) stands for a run of characters that    *)
(* contains none of those three.  The empty string is << >> and string     *)
(* concatenation is \o.                                                    *)
(*                                                                         *)
(* A header map (http.Header, map[string][]string) is a function from the  *)
(* canonical keys that are present to the list of values of that key.      *)
(***************************************************************************)
EXTENDS Naturals, Sequences, FiniteSets, TLC

VARIABLES
    inreq,      \* the inbound *http.Request as the server built it
    realIP,     \* logMiddleware's local realIP (getRealIP(r)), or NotYet
    outreq,     \* the outbound request ReverseProxy.ServeHTTP clones and forwards
    stage,      \* position of the request in the rewriting pipeline
    step,       \* idempotence harness: the Director step that was applied
    once,       \* idempotence harness: the request after one application
    twice,      \* idempotence harness: the request after two applications
    hpc,        \* lifecycle: position of the handler goroutine
    mpc,        \* lifecycle: position of TimeoutHandler.ServeHTTP (the select)
    deadline,   \* lifecycle: "armed", or the handler position at which it fired
    upstream,   \* lifecycle: what RoundTrip returned (response or error), if anything
    copied,     \* lifecycle: number of upstream body chunks copied so far
    wrapped,    \* lifecycle: logMiddleware's responseWriter (statusCode)
    tw,         \* lifecycle: TimeoutHandler's buffering timeoutWriter
    client,     \* lifecycle: what has been written on the client connection
    logs        \* lifecycle: the set of log lines printed

vars == <<inreq, realIP, outreq, stage, step, once, twice,
          hpc, mpc, deadline, upstream, copied, wrapped, tw, client, logs>>

rewriteVars == <<inreq, realIP, outreq, stage>>
idemVars == <<step, once, twice>>
lifeVars == <<hpc, mpc, deadline, upstream, copied, wrapped, tw, client, logs>>

(***************************************************************************)
(* Bounds of the model.                                                    *)
(***************************************************************************)
MaxChainLen == 3   \* longest inbound X-Forwarded-For value, in tokens
MaxAddrLen == 3    \* longest RemoteAddr, in tokens
MaxChunks == 2     \* longest upstream response body, in chunks

(***************************************************************************)
(* Strings.                                                                *)
(***************************************************************************)
Str(alphabet, n) == UNION {[1..k -> alphabet] : k \in 0..n}

Comma == ","
Space == " "
Colon == ":"
CommaSpace == <<Comma, Space>>

\* strings.Join(values, sep)
RECURSIVE Join(_, _)
Join(values, sep) ==
    IF Len(values) = 0 THEN << >>
    ELSE IF Len(values) = 1 THEN values[1]
    ELSE values[1] \o sep \o Join(Tail(values), sep)

\* strings.Split(s, ","): the pieces of s between the commas; one piece, s
\* itself, when s has no comma (and when s is empty).
RECURSIVE Split(_)
Split(s) ==
    IF \A i \in 1..Len(s) : s[i] # Comma THEN <<s>>
    ELSE LET i == CHOOSE j \in 1..Len(s) :
                      s[j] = Comma /\ \A k \in 1..(j - 1) : s[k] # Comma
         IN <<SubSeq(s, 1, i - 1)>> \o Split(SubSeq(s, i + 1, Len(s)))

\* strings.TrimSpace(s)
RECURSIVE TrimLeft(_)
TrimLeft(s) == IF Len(s) > 0 /\ s[1] = Space THEN TrimLeft(Tail(s)) ELSE s

RECURSIVE TrimRight(_)
TrimRight(s) ==
    IF Len(s) > 0 /\ s[Len(s)] = Space THEN TrimRight(SubSeq(s, 1, Len(s) - 1)) ELSE s

TrimSpace(s) == TrimRight(TrimLeft(s))

\* net.SplitHostPort(hostport) for addresses without brackets: the port
\* follows the last colon ("missing port in address" when there is none) and
\* the host before it may hold no further colon ("too many colons").
\* The result is [ok, host]; the port is not used by the program.
SplitHostPort(hostport) ==
    LET colons == {i \in 1..Len(hostport) : hostport[i] = Colon} IN
    IF colons = {} THEN [ok |-> FALSE, host |-> << >>]
    ELSE LET i == CHOOSE j \in colons : \A k \in colons : k <= j
             host == SubSeq(hostport, 1, i - 1)
         IN IF \E k \in 1..Len(host) : host[k] = Colon
            THEN [ok |-> FALSE, host |-> << >>]
            ELSE [ok |-> TRUE, host |-> host]

(***************************************************************************)
(* http.Header.                                                            *)
(***************************************************************************)
EmptyHeader == [k \in {} |-> << >>]

Has(h, key) == key \in DOMAIN h

\* Header.Get: the first value of the key, "" when there is none
Get(h, key) == IF Has(h, key) /\ Len(h[key]) > 0 THEN h[key][1] ELSE << >>

\* Header.Set: the key holds exactly the one value
Set(h, key, value) ==
    [k \in DOMAIN h \cup {key} |-> IF k = key THEN <<value>> ELSE h[k]]

\* Header.Del
Del(h, key) == [k \in DOMAIN h \ {key} |-> h[k]]

(***************************************************************************)
(* The configured upstream: target, err := url.Parse(backendURL).          *)
(***************************************************************************)
target == [Scheme |-> <<"http">>, Host |-> <<"backend.internal:9000">>, Path |-> << >>]

Slash == "/"

\* httputil's singleJoiningSlash(a, b), used by the default director
singleJoiningSlash(a, b) ==
    LET aslash == Len(a) > 0 /\ a[Len(a)] = Slash
        bslash == Len(b) > 0 /\ b[1] = Slash
    IN IF aslash /\ bslash THEN a \o Tail(b)
       ELSE IF ~aslash /\ ~bslash THEN a \o <<Slash>> \o b
       ELSE a \o b

\* originalDirector: the director NewSingleHostReverseProxy(target) installs.
\* It points req.URL at the target and leaves req.Host and the forwarding
\* headers alone.
originalDirector(req) ==
    [req EXCEPT !.URL = [Scheme |-> target.Scheme,
                         Host |-> target.Host,
                         Path |-> singleJoiningSlash(target.Path, req.URL.Path)]]

(***************************************************************************)
(* The five header-rewriting steps of proxy.Director, in source order.     *)
(***************************************************************************)
\* a variant that deletes only Transfer-Encoding and leaves Connection and
\* Upgrade to ReverseProxy, which passes a protocol upgrade on
StripKeepsUpgrade(req) ==
    [req EXCEPT !.Header = Del(@, "Transfer-Encoding")]

\* req.Header.Del("Connection"); Del("Upgrade"); Del("Transfer-Encoding")
StripHopByHop(req) ==
    [req EXCEPT !.Header = Del(Del(Del(@, "Connection"), "Upgrade"), "Transfer-Encoding")]

\* req.Host = target.Host (originalHost := req.Host is taken by the caller)
RewriteHost(req) == [req EXCEPT !.Host = target.Host]

\* X-Forwarded-For: X-Real-IP wins; otherwise append the connection address
SetForwardedFor(req) ==
    LET xri == Get(req.Header, "X-Real-IP")
        hp == SplitHostPort(req.RemoteAddr)
    IN IF xri # << >>
       THEN [req EXCEPT !.Header = Set(@, "X-Forwarded-For", xri)]
       ELSE IF hp.ok
            THEN LET clientIP ==
                         IF Has(req.Header, "X-Forwarded-For")
                         THEN Join(req.Header["X-Forwarded-For"], CommaSpace)
                                  \o CommaSpace \o hp.host
                         ELSE hp.host
                 IN [req EXCEPT !.Header = Set(@, "X-Forwarded-For", clientIP)]
            ELSE req

\* a variant that derives X-Forwarded-Proto from the connection even when
\* the inbound request already bears the header
SetForwardedProtoOverwrites(req) ==
    [req EXCEPT !.Header =
        Set(@, "X-Forwarded-Proto", IF req.TLS THEN <<"https">> ELSE <<"http">>)]

\* X-Forwarded-Proto, set only when the key is absent
SetForwardedProto(req) ==
    IF ~Has(req.Header, "X-Forwarded-Proto")
    THEN IF req.TLS
         THEN [req EXCEPT !.Header = Set(@, "X-Forwarded-Proto", <<"https">>)]
         ELSE LET proto == Get(req.Header, "X-Forwarded-Proto") IN
              IF proto # << >>
              THEN [req EXCEPT !.Header = Set(@, "X-Forwarded-Proto", proto)]
              ELSE [req EXCEPT !.Header = Set(@, "X-Forwarded-Proto", <<"http">>)]
    ELSE req

\* a variant that chains X-Forwarded-Host the way X-Forwarded-For is chained
SetForwardedHostAppends(req, originalHost) ==
    IF Has(req.Header, "X-Forwarded-Host")
    THEN [req EXCEPT !.Header =
             Set(@, "X-Forwarded-Host",
                 Join(req.Header["X-Forwarded-Host"], CommaSpace)
                     \o CommaSpace \o originalHost)]
    ELSE [req EXCEPT !.Header = Set(@, "X-Forwarded-Host", originalHost)]

\* X-Forwarded-Host, set to the pre-rewrite host only when the key is absent
SetForwardedHost(req, originalHost) ==
    IF ~Has(req.Header, "X-Forwarded-Host")
    THEN [req EXCEPT !.Header = Set(@, "X-Forwarded-Host", originalHost)]
    ELSE req

\* a variant that reads originalHost only after req.Host was overwritten
DirectorReadsHostLate(req) ==
    LET r0 == originalDirector(req)
        r1 == StripHopByHop(r0)
        r2 == RewriteHost(r1)
        originalHost == r2.Host
        r3 == SetForwardedFor(r2)
        r4 == SetForwardedProto(r3)
    IN SetForwardedHost(r4, originalHost)

\* proxy.Director
Director(req) ==
    LET r0 == originalDirector(req)
        r1 == StripHopByHop(r0)
        originalHost == r1.Host
        r2 == RewriteHost(r1)
        r3 == SetForwardedFor(r2)
        r4 == SetForwardedProto(r3)
    IN SetForwardedHost(r4, originalHost)

(***************************************************************************)
(* What httputil.ReverseProxy.ServeHTTP does to the outbound request after *)
(* it has called the Director and before it hands the request to the       *)
(* transport (the proxy is used with Director, not Rewrite).               *)
(***************************************************************************)
HopHeaders == <<"Connection", "Proxy-Connection", "Keep-Alive", "Proxy-Authenticate",
                "Proxy-Authorization", "Te", "Trailer", "Transfer-Encoding", "Upgrade">>

\* the fields named by the values of the Connection header
Fields(value) == {TrimSpace(Split(value)[j]) : j \in 1..Len(Split(value))}

ConnectionFields(h) ==
    IF Has(h, "Connection")
    THEN UNION {Fields(h["Connection"][i]) : i \in 1..Len(h["Connection"])} \ {<< >>}
    ELSE {}

\* upgradeType: the Upgrade value when Connection lists the token "Upgrade"
upgradeType(h) ==
    IF <<"Upgrade">> \in ConnectionFields(h) THEN Get(h, "Upgrade") ELSE << >>

RECURSIVE DelAll(_, _)
DelAll(h, keys) == IF Len(keys) = 0 THEN h ELSE DelAll(Del(h, keys[1]), Tail(keys))

\* removeHopByHopHeaders: the headers Connection names, then the fixed list
removeHopByHopHeaders(h) ==
    LET named == ConnectionFields(h)
        h1 == [k \in {x \in DOMAIN h : <<x>> \notin named} |-> h[k]]
    IN DelAll(h1, HopHeaders)

\* the X-Forwarded-For update ServeHTTP itself makes when Rewrite is nil
AppendClientIP(req, h) ==
    LET hp == SplitHostPort(req.RemoteAddr) IN
    IF hp.ok
    THEN IF Has(h, "X-Forwarded-For") /\ Len(h["X-Forwarded-For"]) > 0
         THEN Set(h, "X-Forwarded-For",
                  Join(h["X-Forwarded-For"], CommaSpace) \o CommaSpace \o hp.host)
         ELSE Set(h, "X-Forwarded-For", hp.host)
    ELSE h

FinishOutreq(req, out) ==
    LET reqUpType == upgradeType(out.Header)
        h1 == removeHopByHopHeaders(out.Header)
        h2 == IF reqUpType # << >>
              THEN Set(Set(h1, "Connection", <<"Upgrade">>), "Upgrade", reqUpType)
              ELSE h1
    IN [out EXCEPT !.Header = AppendClientIP(req, h2)]

(***************************************************************************)
(* getRealIP.                                                              *)
(***************************************************************************)
getRealIP(r) ==
    LET xri == Get(r.Header, "X-Real-IP")
        xff == Get(r.Header, "X-Forwarded-For")
        ips == Split(xff)
        hp == SplitHostPort(r.RemoteAddr)
    IN IF xri # << >> THEN xri
       ELSE IF xff # << >> /\ Len(ips) > 0 THEN TrimSpace(ips[1])
       ELSE IF ~hp.ok THEN r.RemoteAddr
       ELSE hp.host

(***************************************************************************)
(* Inbound requests.  Header values arrive with their surrounding          *)
(* whitespace already removed by the server's header parser.               *)
(***************************************************************************)
ChainAlphabet == {"10.0.0.1", Comma, Space}
AddrAlphabet == {"10.0.0.2", Colon, "443"}

Opt(key, values) == {EmptyHeader} \cup {key :> v : v \in values}

WireValues(alphabet, n) == {v \in Str(alphabet, n) : TrimSpace(v) = v}

\* X-Forwarded-For as one header line, or as two
ChainLists ==
    {<<v>> : v \in WireValues(ChainAlphabet, MaxChainLen)}
        \cup {<<v, <<"10.0.0.3">>>> : v \in WireValues(ChainAlphabet, 1)}

RealIPLists == {<<<< >>>>, <<<<"7.7.7.7">>>>}

InboundPath == <<Slash, "items", Slash, "42">>

Inbound(host, addr, tls, header) ==
    [Host |-> host, RemoteAddr |-> addr, TLS |-> tls,
     URL |-> [Scheme |-> << >>, Host |-> << >>, Path |-> InboundPath],
     Header |-> header]

\* requests that vary the client address chain
ChainRequests ==
    {Inbound(<<"example.com">>, addr, tls, xri @@ xff) :
        addr \in Str(AddrAlphabet, MaxAddrLen), tls \in BOOLEAN,
        xri \in Opt("X-Real-IP", RealIPLists),
        xff \in Opt("X-Forwarded-For", ChainLists)}

\* requests that vary protocol, host and hop-by-hop headers
HopRequests ==
    {Inbound(host, addr, tls, xri @@ xff @@ xfp @@ xfh @@ conn @@ upg @@ te) :
        host \in {<<"example.com">>, target.Host},
        addr \in {<<"10.0.0.2", Colon, "443">>, <<"10.0.0.2">>},
        tls \in BOOLEAN,
        xri \in Opt("X-Real-IP", {<<<<"7.7.7.7">>>>}),
        xff \in Opt("X-Forwarded-For", {<<<<"10.0.0.1">>>>}),
        xfp \in Opt("X-Forwarded-Proto", {<<<< >>>>, <<<<"https">>>>, <<<<"http">>>>}),
        xfh \in Opt("X-Forwarded-Host", {<<<<"shop.example">>>>}),
        conn \in Opt("Connection", {<<<<"keep-alive">>>>, <<<<"Upgrade">>>>,
                                    <<<<"keep-alive", Comma, Space, "Upgrade">>>>,
                                    <<<<"X-Forwarded-Proto">>>>}),
        upg \in Opt("Upgrade", {<<<<"websocket">>>>}),
        te \in Opt("Transfer-Encoding", {<<<<"chunked">>>>})}

Requests == ChainRequests \cup HopRequests

DefaultRequest ==
    Inbound(<<"example.com">>, <<"10.0.0.2", Colon, "443">>, FALSE, EmptyHeader)

NotYet == <<"(not computed)">>

(***************************************************************************)
(* The rewriting pipeline of one request.                                  *)
(***************************************************************************)
IdleIdem == step = "none" /\ once = DefaultRequest /\ twice = DefaultRequest

InitRewrite ==
    /\ inreq \in Requests
    /\ realIP = NotYet
    /\ outreq = inreq
    /\ stage = "received"

\* logMiddleware, up to next.ServeHTTP: realIP := getRealIP(r)
LogIncoming ==
    /\ stage = "received"
    /\ realIP' = getRealIP(inreq)
    /\ stage' = "logged"
    /\ UNCHANGED <<inreq, outreq>>

\* ReverseProxy.ServeHTTP: outreq := req.Clone(ctx); p.Director(outreq)
RunDirector ==
    /\ stage = "logged"
    /\ outreq' = Director(inreq)
    /\ stage' = "directed"
    /\ UNCHANGED <<inreq, realIP>>

\* ReverseProxy.ServeHTTP, from the Director's return to transport.RoundTrip
Forward ==
    /\ stage = "directed"
    /\ outreq' = FinishOutreq(inreq, outreq)
    /\ stage' = "forwarded"
    /\ UNCHANGED <<inreq, realIP>>

(***************************************************************************)
(* The life of one request under                                           *)
(*   http.TimeoutHandler(logMiddleware(proxy), 30*time.Second, ...).       *)
(* TimeoutHandler.ServeHTTP runs the inner handler in its own goroutine    *)
(* against a timeoutWriter that buffers status and body, and waits in a    *)
(* select for the handler to return, to panic, or for the deadline.        *)
(***************************************************************************)
StatusOK == 200
StatusBadGateway == 502
StatusServiceUnavailable == 503

ProxyErrorBody == "Proxy error\n"      \* http.Error prints the message and a newline
ProxyTimeoutBody == "Proxy timeout"
ErrHandlerTimeout == "http: Handler timeout"
NoErr == ""

UpstreamStatuses == {200, 404, 503}
ChunkNames == <<"chunk1", "chunk2", "chunk3", "chunk4">>
Bodies == {SubSeq(ChunkNames, 1, n) : n \in 0..MaxChunks}

DialError == "dial tcp 10.0.0.9:9000: connect: connection refused"
DeadlineError == "context deadline exceeded"
BodyError == "unexpected EOF"
ErrDetails == {DialError, DeadlineError, BodyError}

Pending == [kind |-> "pending", status |-> 0, body |-> << >>, detail |-> NoErr]
Response(code, body) == [kind |-> "response", status |-> code, body |-> body, detail |-> NoErr]
Failure(detail) == [kind |-> "error", status |-> 0, body |-> << >>, detail |-> detail]

NothingSent == [wroteHeader |-> FALSE, status |-> 0, body |-> << >>, aborted |-> FALSE]
FreshTimeoutWriter == [wroteHeader |-> FALSE, code |-> 0, wbuf |-> << >>, err |-> NoErr]

Log(line, arg) == <<line, arg>>

Range(f) == {f[i] : i \in DOMAIN f}

\* timeoutWriter.WriteHeader
twWriteHeader(w, code) ==
    IF w.err # NoErr \/ w.wroteHeader THEN w
    ELSE [w EXCEPT !.wroteHeader = TRUE, !.code = code]

\* timeoutWriter.Write: refused once the deadline has fired, buffered otherwise
twWrite(w, p) ==
    IF w.err # NoErr THEN w
    ELSE LET w1 == IF ~w.wroteHeader
                   THEN [w EXCEPT !.wroteHeader = TRUE, !.code = StatusOK]
                   ELSE w
         IN [w1 EXCEPT !.wbuf = Append(@, p)]

\* a variant that records the code and does not pass it on
WriteHeaderKeepsCode(rw, w, code) ==
    [wrapped |-> [rw EXCEPT !.statusCode = code], tw |-> w]

\* responseWriter.WriteHeader: record the code, then pass it on.
\* The result is the pair of the two writers.
WriteHeader(rw, w, code) ==
    [wrapped |-> [rw EXCEPT !.statusCode = code], tw |-> twWriteHeader(w, code)]

\* a variant that answers with the error's own text: http.Error(w, err.Error(), 502)
ErrorHandlerLeaks(rw, w, detail) ==
    LET hdr == WriteHeader(rw, w, StatusBadGateway) IN
    [wrapped |-> hdr.wrapped,
     tw |-> twWrite(hdr.tw, detail),
     logged |-> {Log("Proxy error", detail)}]

\* proxy.ErrorHandler: log the error, http.Error(w, "Proxy error", 502)
ErrorHandler(rw, w, detail) ==
    LET hdr == WriteHeader(rw, w, StatusBadGateway) IN
    [wrapped |-> hdr.wrapped,
     tw |-> twWrite(hdr.tw, ProxyErrorBody),
     logged |-> {Log("Proxy error", detail)}]

\* TimeoutHandler, case <-done: copy the buffered response to the client
FlushBuffered(w) ==
    [wroteHeader |-> TRUE,
     status |-> IF w.wroteHeader THEN w.code ELSE StatusOK,
     body |-> w.wbuf,
     aborted |-> FALSE]

\* a variant whose timeout message is the ErrorHandler's
TimeoutResponseSaysError ==
    [wroteHeader |-> TRUE, status |-> StatusServiceUnavailable,
     body |-> <<ProxyErrorBody>>, aborted |-> FALSE]

\* TimeoutHandler, case <-ctx.Done() with DeadlineExceeded
TimeoutResponse ==
    [wroteHeader |-> TRUE, status |-> StatusServiceUnavailable,
     body |-> <<ProxyTimeoutBody>>, aborted |-> FALSE]

IdleLife ==
    /\ hpc = "idle" /\ mpc = "idle" /\ deadline = "off"
    /\ upstream = Pending /\ copied = 0
    /\ wrapped = [statusCode |-> 0]
    /\ tw = FreshTimeoutWriter /\ client = NothingSent /\ logs = {}

InitLife ==
    /\ hpc = "start" /\ mpc = "select" /\ deadline = "armed"
    /\ upstream = Pending /\ copied = 0
    /\ wrapped = [statusCode |-> 0]
    /\ tw = FreshTimeoutWriter /\ client = NothingSent /\ logs = {}

\* logMiddleware up to next.ServeHTTP(wrapped, r)
Incoming ==
    /\ hpc = "start"
    /\ realIP' = getRealIP(inreq)
    /\ wrapped' = [statusCode |-> StatusOK]
    /\ logs' = logs \cup {Log("Incoming request", "")}
    /\ hpc' = "director"
    /\ stage' = "logged"
    /\ UNCHANGED <<inreq, outreq, mpc, deadline, upstream, copied, tw, client>>

\* ReverseProxy.ServeHTTP up to the call of loggedTransport.RoundTrip
Send ==
    /\ hpc = "director"
    /\ outreq' = FinishOutreq(inreq, Director(inreq))
    /\ logs' = logs \cup {Log("Forwarding request", ""), Log("Backend request", "")}
    /\ hpc' = "roundtrip"
    /\ stage' = "forwarded"
    /\ UNCHANGED <<inreq, realIP, mpc, deadline, upstream, copied, wrapped, tw, client>>

\* loggedTransport.RoundTrip returns the upstream's response
RoundTripResponse ==
    /\ hpc = "roundtrip"
    /\ \E code \in UpstreamStatuses, body \in Bodies :
           /\ upstream' = Response(code, body)
           /\ logs' = logs \cup {Log("Backend response", ToString(code))}
    /\ hpc' = "header"
    /\ UNCHANGED <<rewriteVars, mpc, deadline, copied, wrapped, tw, client>>

\* loggedTransport.RoundTrip returns an error; ServeHTTP calls the ErrorHandler.
\* The request context's own error is possible only once the deadline has fired.
RoundTripError ==
    /\ hpc = "roundtrip"
    /\ \E detail \in {DialError} \cup (IF deadline # "armed" THEN {DeadlineError} ELSE {}) :
           LET eh == ErrorHandler(wrapped, tw, detail) IN
           /\ upstream' = Failure(detail)
           /\ wrapped' = eh.wrapped
           /\ tw' = eh.tw
           /\ logs' = logs \cup {Log("Backend error", detail)} \cup eh.logged
    /\ hpc' = "logresp"
    /\ UNCHANGED <<rewriteVars, mpc, deadline, copied, client>>

\* ReverseProxy.ServeHTTP: rw.WriteHeader(res.StatusCode)
RelayHeader ==
    /\ hpc = "header"
    /\ LET hdr == WriteHeader(wrapped, tw, upstream.status) IN
           /\ wrapped' = hdr.wrapped
           /\ tw' = hdr.tw
    /\ hpc' = "body"
    /\ UNCHANGED <<rewriteVars, mpc, deadline, upstream, copied, client, logs>>

\* copyResponse: one chunk of the upstream body is written to rw.  A write the
\* timeoutWriter refuses ends the copy: ServeHTTP panics with ErrAbortHandler.
RelayChunk ==
    /\ hpc = "body"
    /\ copied < Len(upstream.body)
    /\ IF tw.err # NoErr
       THEN /\ hpc' = "panicked"
            /\ UNCHANGED <<tw, copied>>
       ELSE /\ tw' = twWrite(tw, upstream.body[copied + 1])
            /\ copied' = copied + 1
            /\ hpc' = hpc
    /\ UNCHANGED <<rewriteVars, mpc, deadline, upstream, wrapped, client, logs>>

\* copyResponse: reading the upstream body fails; ServeHTTP panics
RelayFail ==
    /\ hpc = "body"
    /\ copied < Len(upstream.body)
    /\ logs' = logs \cup {Log("copy error", BodyError)}
    /\ hpc' = "panicked"
    /\ UNCHANGED <<rewriteVars, mpc, deadline, upstream, copied, wrapped, tw, client>>

\* copyResponse reaches the end of the body; ServeHTTP returns to logMiddleware
RelayEnd ==
    /\ hpc = "body"
    /\ copied = Len(upstream.body)
    /\ hpc' = "logresp"
    /\ UNCHANGED <<rewriteVars, mpc, deadline, upstream, copied, wrapped, tw, client, logs>>

\* logMiddleware after next.ServeHTTP; the handler returns and done is closed
LogResponse ==
    /\ hpc = "logresp"
    /\ logs' = logs \cup {Log("Response", ToString(wrapped.statusCode))}
    /\ hpc' = "returned"
    /\ UNCHANGED <<rewriteVars, mpc, deadline, upstream, copied, wrapped, tw, client>>

\* The 30 s timer fires while TimeoutHandler waits in its select and the
\* handler has neither returned nor panicked: the timeout response goes to
\* the client and the timeoutWriter refuses every later write.
DeadlineFires ==
    /\ mpc = "select"
    /\ deadline = "armed"
    /\ hpc \notin {"returned", "panicked"}
    /\ deadline' = hpc
    /\ client' = TimeoutResponse
    /\ tw' = [tw EXCEPT !.err = ErrHandlerTimeout]
    /\ mpc' = "finished"
    /\ UNCHANGED <<rewriteVars, hpc, upstream, copied, wrapped, logs>>

\* select, case <-done
HandlerDone ==
    /\ mpc = "select"
    /\ hpc = "returned"
    /\ client' = FlushBuffered(tw)
    /\ mpc' = "finished"
    /\ UNCHANGED <<rewriteVars, hpc, deadline, upstream, copied, wrapped, tw, logs>>

\* select, case p := <-panicChan: the panic is re-raised and the server
\* drops the connection without writing a response
HandlerPanicked ==
    /\ mpc = "select"
    /\ hpc = "panicked"
    /\ client' = [client EXCEPT !.aborted = TRUE]
    /\ mpc' = "finished"
    /\ UNCHANGED <<rewriteVars, hpc, deadline, upstream, copied, wrapped, tw, logs>>

(***************************************************************************)
(* Each Director step applied twice to one request.                        *)
(***************************************************************************)
Twice(name, first, second) ==
    /\ step = "none"
    /\ step' = name
    /\ once' = first
    /\ twice' = second
    /\ UNCHANGED <<rewriteVars, lifeVars>>

ApplyStrip == Twice("strip", StripHopByHop(inreq), StripHopByHop(StripHopByHop(inreq)))

ApplyHost == Twice("host", RewriteHost(inreq), RewriteHost(RewriteHost(inreq)))

ApplyFor == Twice("for", SetForwardedFor(inreq), SetForwardedFor(SetForwardedFor(inreq)))

ApplyProto ==
    Twice("proto", SetForwardedProto(inreq), SetForwardedProto(SetForwardedProto(inreq)))

ApplyFwdHost ==
    Twice("fwdhost", SetForwardedHost(inreq, inreq.Host),
          SetForwardedHost(SetForwardedHost(inreq, inreq.Host), inreq.Host))

(***************************************************************************)
(* Specifications.                                                         *)
(***************************************************************************)
Init == InitRewrite /\ IdleIdem /\ IdleLife

Next ==
    \/ LogIncoming /\ UNCHANGED <<idemVars, lifeVars>>
    \/ RunDirector /\ UNCHANGED <<idemVars, lifeVars>>
    \/ Forward /\ UNCHANGED <<idemVars, lifeVars>>

Spec == Init /\ [][Next]_vars

InitIdem ==
    /\ inreq \in Requests /\ realIP = NotYet /\ outreq = inreq /\ stage = "received"
    /\ step = "none" /\ once = inreq /\ twice = inreq
    /\ IdleLife

NextIdem == ApplyStrip \/ ApplyHost \/ ApplyFor \/ ApplyProto \/ ApplyFwdHost

SpecIdem == InitIdem /\ [][NextIdem]_vars

LifeRequests ==
    {Inbound(<<"example.com">>, <<"10.0.0.2", Colon, "443">>, tls, xri) :
        tls \in BOOLEAN, xri \in Opt("X-Real-IP", {<<<<"7.7.7.7">>>>})}

InitLifecycle ==
    /\ inreq \in LifeRequests /\ realIP = NotYet /\ outreq = inreq /\ stage = "received"
    /\ IdleIdem
    /\ InitLife

NextLifecycle ==
    \/ Incoming /\ UNCHANGED idemVars
    \/ Send /\ UNCHANGED idemVars
    \/ RoundTripResponse /\ UNCHANGED idemVars
    \/ RoundTripError /\ UNCHANGED idemVars
    \/ RelayHeader /\ UNCHANGED idemVars
    \/ RelayChunk /\ UNCHANGED idemVars
    \/ RelayFail /\ UNCHANGED idemVars
    \/ RelayEnd /\ UNCHANGED idemVars
    \/ LogResponse /\ UNCHANGED idemVars
    \/ DeadlineFires /\ UNCHANGED idemVars
    \/ HandlerDone /\ UNCHANGED idemVars
    \/ HandlerPanicked /\ UNCHANGED idemVars

SpecLifecycle == InitLifecycle /\ [][NextLifecycle]_vars

(***************************************************************************)
(* Properties.                                                             *)
(***************************************************************************)
XFF == "X-Forwarded-For"
XFP == "X-Forwarded-Proto"
XFH == "X-Forwarded-Host"

\* the connection address with its port stripped
ResolvedAddress(req) ==
    LET hp == SplitHostPort(req.RemoteAddr) IN IF hp.ok THEN hp.host ELSE req.RemoteAddr

HasRealIP(req) == Get(req.Header, "X-Real-IP") # << >>

\* C1: the X-Forwarded-For of every forwarded request is the inbound chain
\* followed by this hop: the resolved connection address alone when the
\* inbound request has no X-Forwarded-For, V + ", " + resolvedAddress when it
\* carries the value V.  Stated here for the requests C2 does not cover (no
\* X-Real-IP value) whose RemoteAddr is a host:port, as every address of a
\* TCP connection is.
C1_ForwardedForIsChainPlusHop ==
    (/\ stage = "forwarded"
     /\ ~HasRealIP(inreq)
     /\ SplitHostPort(inreq.RemoteAddr).ok) =>
        /\ Has(outreq.Header, XFF)
        /\ outreq.Header[XFF] =
               IF Has(inreq.Header, XFF)
               THEN <<Join(inreq.Header[XFF], CommaSpace) \o CommaSpace
                          \o ResolvedAddress(inreq)>>
               ELSE <<ResolvedAddress(inreq)>>

\* C2: with a non-empty X-Real-IP on the inbound request, the forwarded
\* X-Forwarded-For is exactly that value: nothing of the old chain is kept
\* and the connection address is not appended.
C2_RealIPReplacesChain ==
    (stage = "forwarded" /\ HasRealIP(inreq)) =>
        /\ Has(outreq.Header, XFF)
        /\ outreq.Header[XFF] = <<Get(inreq.Header, "X-Real-IP")>>

C4_HostAndForwardedHost ==
    stage \in {"directed", "forwarded"} =>
        /\ outreq.Host = target.Host
        /\ Has(outreq.Header, XFH)
        /\ outreq.Header[XFH] =
               IF Has(inreq.Header, XFH) THEN inreq.Header[XFH] ELSE <<inreq.Host>>

C4_Witness ==
    /\ stage = "forwarded"
    /\ ~Has(inreq.Header, XFH)
    /\ inreq.Host # target.Host
    /\ outreq.Host = target.Host
    /\ outreq.Header[XFH] = <<inreq.Host>>

\* C5: Connection, Upgrade and Transfer-Encoding are absent from every
\* forwarded request, whichever of them the inbound request carried.
C5_NoHopByHop ==
    stage = "forwarded" =>
        {"Connection", "Upgrade", "Transfer-Encoding"} \cap DOMAIN outreq.Header = {}

C5_Witness ==
    /\ stage = "forwarded"
    /\ {"Connection", "Upgrade", "Transfer-Encoding"} \subseteq DOMAIN inreq.Header
    /\ <<"Upgrade">> \in ConnectionFields(inreq.Header)
    /\ {"Connection", "Upgrade", "Transfer-Encoding"} \cap DOMAIN outreq.Header = {}

\* C9: getRealIP returns the first non-empty of: the X-Real-IP value; the
\* first comma-separated element of X-Forwarded-For, trimmed; the remote
\* address without its port, or the raw remote address when it does not parse.
FirstForwarded(req) == TrimSpace(Split(Get(req.Header, XFF))[1])

FirstNonEmptySignal(req) ==
    IF HasRealIP(req) THEN Get(req.Header, "X-Real-IP")
    ELSE IF FirstForwarded(req) # << >> THEN FirstForwarded(req)
    ELSE ResolvedAddress(req)

\* Stated for the requests whose RemoteAddr is a host:port.
C9_FirstNonEmptySignal ==
    (stage = "logged" /\ SplitHostPort(inreq.RemoteAddr).ok) =>
        realIP = FirstNonEmptySignal(inreq)

\* What the code does instead: the X-Forwarded-For branch is taken whenever
\* the header value is non-empty, also when its first element is blank.
\* In every other case, an unparsable RemoteAddr included, the result is the
\* first non-empty signal.
getRealIP_BlankFirstElement ==
    stage = "logged" =>
        IF ~HasRealIP(inreq) /\ Get(inreq.Header, XFF) # << >>
               /\ FirstForwarded(inreq) = << >>
        THEN realIP = << >>
        ELSE realIP = FirstNonEmptySignal(inreq)

\* C10 as stated: every one of the five Director steps is idempotent.
C10_EveryStepIdempotent == step # "none" => twice = once

\* C10 as amended: stripping, the Host rewrite, X-Forwarded-Proto and
\* X-Forwarded-Host are idempotent; the X-Forwarded-For step is idempotent
\* exactly when X-Real-IP is non-empty or RemoteAddr does not parse, and
\* otherwise appends the connection address once more.
C10_StepsIdempotentButAppend ==
    /\ step \in {"strip", "host", "proto", "fwdhost"} => twice = once
    /\ step = "for" =>
           IF HasRealIP(inreq) \/ ~SplitHostPort(inreq.RemoteAddr).ok
           THEN twice = once
           ELSE /\ twice # once
                /\ twice.Header[XFF] =
                       <<once.Header[XFF][1] \o CommaSpace \o ResolvedAddress(inreq)>>

C10_Witness ==
    /\ step = "fwdhost"
    /\ ~Has(inreq.Header, XFH)
    /\ once # inreq
    /\ twice = once

====
